---- MODULE Spec2Model ----
(***************************************************************************)
(* Model of src/execution/scrape_google_maps_radius.py: the radius-based   *)
(* Google Maps scraper (grid planning, per-cell query with retries,        *)
(* filtering and merge-by-identifier, orchestration).                      *)
(*                                                                         *)
(* Coordinates.  The source works in floating-point degrees.  The model    *)
(* works on an integer lattice whose unit is half a kilometre:             *)
(*   one latitude  unit = 1/(2 * 111.32) degree,                           *)
(*   one longitude unit = 1/(2 * 111.32 * cos(center_lat)) degree,         *)
(* which are the source's lat_deg_per_km and lon_deg_per_km divided by 2.  *)
(* On that lattice a 2 km cell edge is 4 units and the midpoint of a cell  *)
(* is again a lattice point.  haversine_distance is modelled by its        *)
(* small-angle form, the planar distance on the lattice, kept squared so   *)
(* that it stays an integer; it is compared with the squared radius.  For  *)
(* the radii of the model no cell midpoint and no modelled place lies      *)
(* closer than 2% to the circle other than exactly on it, while the        *)
(* haversine and planar distances differ by about 0.1%.                    *)
(***************************************************************************)
EXTENDS Integers, Sequences, FiniteSets, TLC

\* ------------------------------------------------------------ constants
GRID_CELL_SIZE_KM == 2
max_retries == 3

\* Largest radius (km) of the runs that are explored.
MaxRadius == 3

\* Lattice units in `km` kilometres (the degrees-per-km conversion).
Units(km) == 2 * km

\* ------------------------------------------------------- JSON / Python values
\* A JSON member as Python sees it: absent from the object, null (None),
\* a string, a number, or a list of strings.  A string is held as the
\* sequence of the pieces it is the concatenation of ("" is <<>>), so that
\* str.join can build one.
Absent == [t |-> "absent", s |-> <<>>, n |-> 0, l |-> <<>>]
None == [t |-> "null", s |-> <<>>, n |-> 0, l |-> <<>>]
Str(x) == [t |-> "str", s |-> IF x = "" THEN <<>> ELSE <<x>>, n |-> 0, l |-> <<>>]
Num(k) == [t |-> "num", s |-> <<>>, n |-> k, l |-> <<>>]
List(q) == [t |-> "list", s |-> <<>>, n |-> 0, l |-> q]

\* dict.get(key, default): the default only when the key is absent.
Get(v, default) == IF v.t = "absent" THEN default ELSE v

\* Python truthiness of a value.
Truthy(v) ==
    CASE v.t = "str" -> v.s # <<>>
      [] v.t = "num" -> v.n # 0
      [] v.t = "list" -> v.l # <<>>
      [] OTHER -> FALSE

\* The "location" member of a place: absent, null, or an object.
NoLocation == [t |-> "absent", lat |-> Absent, lng |-> Absent]
NullLocation == [t |-> "null", lat |-> Absent, lng |-> Absent]
Location(la, lo) == [t |-> "obj", lat |-> la, lng |-> lo]

\* A place object of the provider's response.
MkPlace(id, loc, cats, title) ==
    [placeId |-> id, location |-> loc, categories |-> cats, title |-> title,
     address |-> Absent, phoneUnformatted |-> Absent, website |-> Absent,
     totalScore |-> Absent, reviewsCount |-> Absent, url |-> Absent]

\* str.lower() on the category and business-type tokens of the model.
Lower(c) ==
    CASE c = "Plumber" -> "plumber"
      [] c = "PLUMBER" -> "plumber"
      [] c = "Plumber Supply" -> "plumber supply"
      [] c = "Electrician" -> "electrician"
      [] OTHER -> c

\* ", ".join(q): the pieces of q with the separator between them.
RECURSIVE JoinPieces(_)
JoinPieces(q) ==
    IF q = <<>> THEN <<>>
    ELSE IF Len(q) = 1 THEN <<q[1]>>
    ELSE <<q[1], ", ">> \o JoinPieces(Tail(q))

Join(q) == [t |-> "str", s |-> JoinPieces(q), n |-> 0, l |-> <<>>]

\* ------------------------------------------------------------- GeoMath
\* haversine_distance, squared, in lattice units (see the header).
haversine_distance(lat1, lon1, lat2, lon2) ==
    LET dlat == lat2 - lat1
        dlon == lon2 - lon1
    IN  dlat * dlat + dlon * dlon

\* distance <= km, for a squared lattice distance.
WithinKm(d2, km) == d2 <= Units(km) * Units(km)

\* ---------------------------------------------------------- GridPlanner
\* int(math.ceil(a / b)) for a >= 0, b > 0.
CeilDiv(a, b) == (a + b - 1) \div b

\* Mutant of CellAt: the max corner is computed with i and j, not i + 1 and
\* j + 1 (a cell without area).
CellAt_NoArea(center_lat, center_lon, i, j) ==
    << center_lat + i * Units(GRID_CELL_SIZE_KM),
       center_lon + j * Units(GRID_CELL_SIZE_KM),
       center_lat + i * Units(GRID_CELL_SIZE_KM),
       center_lon + j * Units(GRID_CELL_SIZE_KM) >>

\* Mutant of CellAt: the grid advances by half a cell size per offset, so
\* that neighbouring cells overlap.
CellAt_HalfStride(center_lat, center_lon, i, j) ==
    << center_lat + i * Units(GRID_CELL_SIZE_KM \div 2),
       center_lon + j * Units(GRID_CELL_SIZE_KM \div 2),
       center_lat + i * Units(GRID_CELL_SIZE_KM \div 2) + Units(GRID_CELL_SIZE_KM),
       center_lon + j * Units(GRID_CELL_SIZE_KM \div 2) + Units(GRID_CELL_SIZE_KM) >>

\* The cell at grid offset (i, j): (min_lat, min_lon, max_lat, max_lon).
CellAt(center_lat, center_lon, i, j) ==
    << center_lat + i * Units(GRID_CELL_SIZE_KM),
       center_lon + j * Units(GRID_CELL_SIZE_KM),
       center_lat + (i + 1) * Units(GRID_CELL_SIZE_KM),
       center_lon + (j + 1) * Units(GRID_CELL_SIZE_KM) >>

\* Mutant of CellIncluded: the test is made on the cell's min corner.
CellIncluded_Corner(center_lat, center_lon, radius_km, cell) ==
    WithinKm(haversine_distance(center_lat, center_lon, cell[1], cell[2]),
             radius_km)

\* The inclusion test: the cell's midpoint is within the radius.
CellIncluded(center_lat, center_lon, radius_km, cell) ==
    LET cell_center_lat == (cell[1] + cell[3]) \div 2
        cell_center_lon == (cell[2] + cell[4]) \div 2
        distance == haversine_distance(center_lat, center_lon,
                                       cell_center_lat, cell_center_lon)
    IN  WithinKm(distance, radius_km)

\* Mutant of GridLoop: the loops are nested the other way (j outside).
RECURSIVE GridLoop_ColumnMajor(_, _, _, _, _)
GridLoop_ColumnMajor(center_lat, center_lon, radius_km, n, k) ==
    IF k >= (2 * n + 1) * (2 * n + 1) THEN <<>>
    ELSE LET j == (k \div (2 * n + 1)) - n
             i == (k % (2 * n + 1)) - n
             cell == CellAt(center_lat, center_lon, i, j)
             rest == GridLoop_ColumnMajor(center_lat, center_lon, radius_km, n, k + 1)
         IN  IF CellIncluded(center_lat, center_lon, radius_km, cell)
             THEN <<cell>> \o rest
             ELSE rest

\* The two nested loops, row-major: k counts the (i, j) pairs visited.
RECURSIVE GridLoop(_, _, _, _, _)
GridLoop(center_lat, center_lon, radius_km, n, k) ==
    IF k >= (2 * n + 1) * (2 * n + 1) THEN <<>>
    ELSE LET i == (k \div (2 * n + 1)) - n
             j == (k % (2 * n + 1)) - n
             cell == CellAt(center_lat, center_lon, i, j)
             rest == GridLoop(center_lat, center_lon, radius_km, n, k + 1)
         IN  IF CellIncluded(center_lat, center_lon, radius_km, cell)
             THEN <<cell>> \o rest
             ELSE rest

generate_grid_cells(center_lat, center_lon, radius_km) ==
    LET lat_cells == CeilDiv(radius_km * 2, GRID_CELL_SIZE_KM)
    IN  GridLoop(center_lat, center_lon, radius_km, lat_cells, 0)

\* Mutant of create_polygon_coords: the points are [latitude, longitude].
create_polygon_coords_LatLon(min_lat, min_lon, max_lat, max_lon) ==
    << <<max_lat, max_lon>>, <<min_lat, max_lon>>, <<min_lat, min_lon>>,
       <<max_lat, min_lon>>, <<max_lat, max_lon>> >>

\* The ring of a cell, clockwise from top-right, points as [lon, lat].
create_polygon_coords(min_lat, min_lon, max_lat, max_lon) ==
    << <<max_lon, max_lat>>, <<max_lon, min_lat>>, <<min_lon, min_lat>>,
       <<min_lon, max_lat>>, <<max_lon, max_lat>> >>

\* ------------------------------------------------------ ResultAggregator
\* The record stored for a place (the dict literal of the insertion).
\* place_lat and place_lon are stored as read, None included.
BuildRecord(place, place_id, place_lat, place_lon) ==
    [business_name |-> Get(place.title, Str("")),
     address |-> Get(place.address, Str("")),
     phone |-> Get(place.phoneUnformatted, Str("")),
     website |-> Get(place.website, Str("")),
     rating |-> Get(place.totalScore, Num(0)),
     total_reviews |-> Get(place.reviewsCount, Num(0)),
     categories |-> Join(Get(place.categories, List(<<>>)).l),
     latitude |-> place_lat,
     longitude |-> place_lon,
     place_id |-> place_id,
     google_maps_url |-> Get(place.url, Str(""))]

\* Mutant of NotInResults: the membership test is dropped (last seen wins).
NotInResults_Always(results, key) == TRUE

\* place_id not in self.results
NotInResults(results, key) == key \notin DOMAIN results

\* self.results[key] = rec
Store(results, key, rec) ==
    [k \in DOMAIN results \cup {key} |-> IF k = key THEN rec ELSE results[k]]

\* if place_lat and place_lon: the radius filter applies.
HasLocation(place_lat, place_lon) == Truthy(place_lat) /\ Truthy(place_lon)

\* Mutant of CategoryMatch: a requested type matches when it is contained
\* in a category ("plumber" in "plumber supply").
CategoryMatch_Substring(business_types, categories) ==
    \E b \in 1..Len(business_types) :
        \E c \in 1..Len(categories) :
            \/ Lower(business_types[b]) = Lower(categories[c])
            \/ /\ Lower(business_types[b]) = "plumber"
               /\ Lower(categories[c]) = "plumber supply"

\* any(bt.lower() in [c.lower() for c in categories] for bt in business_types)
CategoryMatch(business_types, categories) ==
    \E b \in 1..Len(business_types) :
        \E c \in 1..Len(categories) :
            Lower(business_types[b]) = Lower(categories[c])

\* Mutant of HasId: only a missing or null placeId is skipped.
HasId_NotNone(place_id) == place_id.t # "null"

\* if not place_id: continue
HasId(place_id) == Truthy(place_id)

\* The string a placeId holds, as the key of self.results.
KeyOf(place_id) == IF place_id.s = <<>> THEN "" ELSE place_id.s[1]

\* One iteration of the loop over the places of a response.  acc holds
\* self.results, new_count and whether an exception has left the loop
\* (AttributeError on a null location, TypeError on a null category list).
ProcessPlace(acc, place, self) ==
    LET place_id == Get(place.placeId, None)
        loc == place.location
        place_lat == IF loc.t = "absent" THEN None ELSE Get(loc.lat, None)
        place_lon == IF loc.t = "absent" THEN None ELSE Get(loc.lng, None)
        categories == Get(place.categories, List(<<>>))
        raise == [acc EXCEPT !.raised = TRUE]
    IN  IF acc.raised THEN acc
        ELSE IF ~HasId(place_id) THEN acc
        ELSE IF loc.t = "null" THEN raise
        ELSE IF /\ HasLocation(place_lat, place_lon)
                /\ ~WithinKm(haversine_distance(self.center_lat, self.center_lon,
                                                place_lat.n, place_lon.n),
                             self.radius_km)
             THEN acc
        ELSE IF self.business_types # <<>> /\ categories.t = "null" THEN raise
        ELSE IF /\ self.business_types # <<>>
                /\ ~CategoryMatch(self.business_types, categories.l)
             THEN acc
        ELSE IF ~NotInResults(acc.results, KeyOf(place_id)) THEN acc
        ELSE IF categories.t = "null" THEN raise
        ELSE [acc EXCEPT
                !.results = Store(acc.results, KeyOf(place_id),
                                  BuildRecord(place, place_id, place_lat, place_lon)),
                !.new_count = acc.new_count + 1]

\* The loop over the places of a response body that is a list.
RECURSIVE ProcessPlaces(_, _, _)
ProcessPlaces(acc, places, self) ==
    IF places = <<>> THEN acc
    ELSE ProcessPlaces(ProcessPlace(acc, Head(places), self), Tail(places), self)

\* The processing of a successful response.  A body that is a JSON object
\* is iterated by its keys, which are strings: the first place.get raises
\* AttributeError; an empty object is iterated zero times.
ProcessResults(results, body, self) ==
    LET start == [results |-> results, new_count |-> 0, raised |-> FALSE]
    IN  IF body.kind = "object"
        THEN [start EXCEPT !.raised = body.members > 0]
        ELSE ProcessPlaces(start, body.places, self)

\* ------------------------------------------------------ the environment
\* Places the provider may return.  The search center of the valid runs is
\* (1, 2): PlaceA is 0.5 km from it, PlaceB 2 km, PlaceZ (latitude 0) about
\* 6 km and PlaceF about 10 km.
PlaceA == MkPlace(Str("A"), Location(Num(1), Num(3)), List(<<"Plumber">>), Str("Alpha"))
PlaceB == MkPlace(Str("B"), Location(Num(1), Num(6)), List(<<"Plumber Supply">>), Str("Beta"))
PlaceZ == MkPlace(Str("Z"), Location(Num(0), Num(14)), List(<<"plumber">>), Str("Zero"))
PlaceF == MkPlace(Str("F"), Location(Num(9), Num(20)), List(<<"plumber">>), Str("Far"))
PlaceX1 == MkPlace(Str("X"), Location(Num(2), Num(2)), List(<<"Electrician", "PLUMBER">>), Str("First"))
PlaceX2 == MkPlace(Str("X"), Location(Num(2), Num(2)), List(<<"Electrician">>), Str("Second"))
PlaceN == MkPlace(Str("N"), NoLocation, Absent, Absent)
PlaceE == MkPlace(Str(""), Location(Num(1), Num(2)), List(<<"plumber">>), Str("NoId"))
PlaceM == MkPlace(Absent, Location(Num(1), Num(2)), List(<<"plumber">>), Str("MissingId"))
PlaceL == MkPlace(Str("L"), NullLocation, List(<<"plumber">>), Str("NullLoc"))
PlaceK == MkPlace(Str("K"), Location(Num(1), Num(2)), None, Str("NullCats"))

ListBody(places) == [kind |-> "list", members |-> Len(places), places |-> places]
ObjectBody(n) == [kind |-> "object", members |-> n, places |-> <<>>]

\* The body of the end-to-end scenario: one place 0.5 km away, one 2 km away.
FixtureBody == ListBody(<<PlaceA, PlaceB>>)

\* The bodies a 200 response may carry (what response.json() returns).
Bodies ==
    { ListBody(<<>>),
      FixtureBody,
      ListBody(<<PlaceX1, PlaceZ>>),
      ListBody(<<PlaceX2, PlaceN, PlaceX2>>),
      ListBody(<<PlaceE, PlaceM, PlaceF, PlaceA>>),
      ListBody(<<PlaceB, PlaceL>>),
      ListBody(<<PlaceK>>),
      ObjectBody(1),
      ObjectBody(0) }

\* The command lines explored: --lat, --lon (lattice units), --radius (km),
\* --business-types.
ValidArgs ==
    [lat : {1}, lon : {2}, radius : 1..MaxRadius, business_types : {"all", "plumber", "Electrician"}]

\* Valid command lines on the edge of the longitude range (180 degrees is
\* 40075.2 lattice units at the equator).
EdgeArgs ==
    { [lat |-> 1, lon |-> 40075, radius |-> 1, business_types |-> "all"],
      [lat |-> 1, lon |-> -40075, radius |-> 1, business_types |-> "all"] }

InvalidArgs ==
    { [lat |-> 20038, lon |-> 2, radius |-> 1, business_types |-> "all"],
      [lat |-> 1, lon |-> -40076, radius |-> 1, business_types |-> "all"],
      [lat |-> 1, lon |-> 2, radius |-> 0, business_types |-> "all"],
      [lat |-> 1, lon |-> 2, radius |-> -1, business_types |-> "plumber"] }

\* [bt.strip() for bt in s.split(',')] on the option values of the model.
SplitTypes(s) ==
    CASE s = "all" -> <<"all">>
      [] s = "plumber" -> <<"plumber">>
      [] s = "Electrician" -> <<"Electrician">>
      [] OTHER -> <<s>>

\* ------------------------------------------------------------- state
VARIABLES
    pc,          \* position of the program
    args,        \* the parsed command line
    apiKey,      \* whether APIFY_API_KEY is set
    provider,    \* "any": the provider answers freely; "fixture": every
                 \* request is answered 200 with the scenario body
    self,        \* center_lat, center_lon, radius_km, business_types
    results,     \* self.results: place_id -> record
    cells,       \* the planned cells
    cellIdx,     \* i of scrape's loop (1-based)
    attempt,     \* attempt of scrape_cell's loop
    tally,       \* responses received by the most recent cell query, by kind
    lastOutcome, \* kind of the last response
    lastBody,    \* <<body>>: the body of the last response if it was a 200
    returned,    \* <<n>>: what the last finished scrape_cell returned
    slept,       \* time.sleep calls made after the last response, in order
    inFlight,    \* cells whose request has been posted and not answered
    networkUsed, \* whether requests.post has been called in this run
    delays,      \* number of inter-cell time.sleep(2) calls so far
    polygon,     \* <<ring>>: customGeolocation.coordinates of the last post
    queried      \* the cells scrape_cell was called with, in call order

vars ==
    <<pc, args, apiKey, provider, self, results, cells, cellIdx, attempt,
      tally, lastOutcome, lastBody, returned, slept, inFlight, networkUsed,
      delays, polygon, queried>>

NoTally == [ok |-> 0, r429 |-> 0, timeout |-> 0, error |-> 0]

Init ==
    /\ pc = "main"
    /\ args \in ValidArgs \cup EdgeArgs \cup InvalidArgs
    /\ apiKey \in BOOLEAN
    /\ provider \in {"any", "fixture"}
    /\ self = [center_lat |-> 0, center_lon |-> 0, radius_km |-> 0,
               business_types |-> <<>>]
    /\ results = <<>>
    /\ cells = <<>>
    /\ cellIdx = 0
    /\ attempt = 0
    /\ tally = NoTally
    /\ lastOutcome = "none"
    /\ lastBody = <<>>
    /\ returned = <<>>
    /\ slept = <<>>
    /\ inFlight = {}
    /\ networkUsed = FALSE
    /\ delays = 0
    /\ polygon = <<>>
    /\ queried = <<>>

\* ------------------------------------------------------------- main
\* Mutant of ArgsValid: the radius is not checked.
ArgsValid_NoRadius(a) ==
    /\ -90 * 22264 <= a.lat * 100 /\ a.lat * 100 <= 90 * 22264
    /\ -180 * 22264 <= a.lon * 100 /\ a.lon * 100 <= 180 * 22264

\* The three input checks; lat and lon are in lattice units, 222.64 to the
\* degree at the equator, where the modelled centers lie.
ArgsValid(a) ==
    /\ -90 * 22264 <= a.lat * 100 /\ a.lat * 100 <= 90 * 22264
    /\ -180 * 22264 <= a.lon * 100 /\ a.lon * 100 <= 180 * 22264
    /\ ~(a.radius <= 0)

Validate ==
    /\ pc = "main"
    /\ pc' = IF ArgsValid(args) THEN "construct" ELSE "exit"
    /\ UNCHANGED <<args, apiKey, provider, self, results, cells, cellIdx,
                   attempt, tally, lastOutcome, lastBody, returned, slept,
                   inFlight, networkUsed, delays,
                   polygon, queried>>

\* Mutant of Construct: the constructor does not test APIFY_API_KEY.
Construct_NoKeyCheck ==
    /\ pc = "construct"
    /\ self' = [center_lat |-> args.lat, center_lon |-> args.lon,
                radius_km |-> args.radius, business_types |-> <<>>]
    /\ results' = <<>>
    /\ pc' = "scrape"
    /\ UNCHANGED <<args, apiKey, provider, cells, cellIdx, attempt, tally,
                   lastOutcome, lastBody, returned, slept, inFlight,
                   networkUsed, delays,
                   polygon, queried>>

\* GoogleMapsRadiusScraper(args.lat, args.lon, args.radius, business_types)
Construct ==
    /\ pc = "construct"
    /\ LET business_types ==
               IF args.business_types = "all" THEN <<>>
               ELSE SplitTypes(args.business_types)
       IN  self' = [center_lat |-> args.lat, center_lon |-> args.lon,
                    radius_km |-> args.radius,
                    business_types |->
                        IF business_types # <<>> /\ business_types # <<"all">>
                        THEN business_types ELSE <<>>]
    /\ results' = <<>>
    /\ pc' = IF apiKey THEN "scrape" ELSE "config_error"
    /\ UNCHANGED <<args, apiKey, provider, cells, cellIdx, attempt, tally,
                   lastOutcome, lastBody, returned, slept, inFlight,
                   networkUsed, delays,
                   polygon, queried>>

\* ------------------------------------------------------------- scrape
\* Mutant of Plan: the planner may hand the cells out in reverse order (as
\* an iteration over an unordered collection could).
Plan_Unordered ==
    /\ pc = "scrape"
    /\ LET g == generate_grid_cells(self.center_lat, self.center_lon, self.radius_km)
       IN  cells' \in {g, [k \in 1..Len(g) |-> g[Len(g) + 1 - k]]}
    /\ IF cells' = <<>>
       THEN pc' = "done" /\ cellIdx' = 0
       ELSE pc' = "request" /\ cellIdx' = 1
    /\ attempt' = 0
    /\ UNCHANGED <<args, apiKey, provider, self, results, tally, lastOutcome,
                   lastBody, returned, slept, inFlight, networkUsed, delays,
                   polygon, queried>>

\* cells = self.generate_grid_cells(), and the entry of the loop over them.
Plan ==
    /\ pc = "scrape"
    /\ cells' = generate_grid_cells(self.center_lat, self.center_lon, self.radius_km)
    /\ IF cells' = <<>>
       THEN pc' = "done" /\ cellIdx' = 0
       ELSE pc' = "request" /\ cellIdx' = 1
    /\ attempt' = 0
    /\ UNCHANGED <<args, apiKey, provider, self, results, tally, lastOutcome,
                   lastBody, returned, slept, inFlight, networkUsed, delays,
                   polygon, queried>>

\* Mutant of SendRequest: the request is posted without waiting for its
\* response, and the loop goes on to the next cell.
SendRequest_NoWait ==
    /\ pc = "request"
    /\ inFlight' = inFlight \cup {cellIdx}
    /\ networkUsed' = TRUE
    /\ IF cellIdx < Len(cells)
       THEN cellIdx' = cellIdx + 1 /\ pc' = "request"
       ELSE cellIdx' = cellIdx /\ pc' = "await"
    /\ polygon' = <<create_polygon_coords(cells[cellIdx][1], cells[cellIdx][2],
                                         cells[cellIdx][3], cells[cellIdx][4])>>
    /\ queried' = IF attempt = 0 THEN Append(queried, cells[cellIdx]) ELSE queried
    /\ UNCHANGED <<args, apiKey, provider, self, results, cells, attempt,
                   tally, lastOutcome, lastBody, returned, slept, delays>>

\* requests.post(...) is called for the current cell, with the polygon of
\* the cell in the payload, and blocks until the response or the exception
\* arrives.  The first post of a cell is the entry of scrape_cell.
SendRequest ==
    /\ pc = "request"
    /\ pc' = "await"
    /\ inFlight' = inFlight \cup {cellIdx}
    /\ networkUsed' = TRUE
    /\ polygon' = <<create_polygon_coords(cells[cellIdx][1], cells[cellIdx][2],
                                         cells[cellIdx][3], cells[cellIdx][4])>>
    /\ queried' = IF attempt = 0 THEN Append(queried, cells[cellIdx]) ELSE queried
    /\ UNCHANGED <<args, apiKey, provider, self, results, cells, cellIdx,
                   attempt, tally, lastOutcome, lastBody, returned, slept,
                   delays>>

\* The response of kind o is counted for the cell query it belongs to.
Count(o) ==
    LET t == IF attempt = 0 THEN NoTally ELSE tally
    IN  tally' = [t EXCEPT ![o] = @ + 1]

\* Mutant of FinishCell: the 2 s sleep is taken after the last cell too.
FinishCell_AlwaysSleeps(ret, sleeps) ==
    /\ returned' = <<ret>>
    /\ attempt' = 0
    /\ slept' = sleeps \o <<2>>
    /\ delays' = delays + 1
    /\ IF cellIdx < Len(cells)
       THEN cellIdx' = cellIdx + 1 /\ pc' = "request"
       ELSE cellIdx' = cellIdx /\ pc' = "done"

\* scrape_cell returns ret; scrape sleeps 2 s unless the cell was the
\* last, and goes to the next cell or returns self.results.
FinishCell(ret, sleeps) ==
    /\ returned' = <<ret>>
    /\ attempt' = 0
    /\ IF cellIdx < Len(cells)
       THEN /\ cellIdx' = cellIdx + 1
            /\ pc' = "request"
            /\ slept' = sleeps \o <<2>>
            /\ delays' = delays + 1
       ELSE /\ cellIdx' = cellIdx
            /\ pc' = "done"
            /\ slept' = sleeps
            /\ delays' = delays

\* Mutant of NextAttempt: the last failure is re-raised instead of skipped.
NextAttempt_Raises(sleeps) ==
    IF attempt + 1 < max_retries
    THEN /\ attempt' = attempt + 1
         /\ slept' = sleeps
         /\ pc' = "request"
         /\ UNCHANGED <<cellIdx, returned, delays>>
    ELSE /\ pc' = "raised"
         /\ slept' = sleeps
         /\ UNCHANGED <<attempt, cellIdx, returned, delays>>

\* The for loop goes to its next attempt, or is exhausted and scrape_cell
\* returns 0 ("Failed after 3 attempts, skipping cell").
NextAttempt(sleeps) ==
    IF attempt + 1 < max_retries
    THEN /\ attempt' = attempt + 1
         /\ slept' = sleeps
         /\ pc' = "request"
         /\ UNCHANGED <<cellIdx, returned, delays>>
    ELSE FinishCell(0, sleeps)

\* Mutant of Backoff: the 5 s sleep is taken after the last attempt too.
Backoff_Always == <<5>>

\* time.sleep(5) of the two except clauses: not after the last attempt.
Backoff == IF attempt < max_retries - 1 THEN <<5>> ELSE <<>>

\* Mutant of Response429: the 429 branch retries without using up an
\* attempt (a while loop in place of the for loop).
Response429_KeepsAttempt ==
    /\ pc = "await"
    /\ provider = "any"
    /\ inFlight' = inFlight \ {cellIdx}
    /\ Count("r429")
    /\ lastOutcome' = "429"
    /\ lastBody' = <<>>
    /\ slept' = <<60>>
    /\ pc' = "request"
    /\ UNCHANGED <<attempt, cellIdx, returned, delays>>
    /\ UNCHANGED <<args, apiKey, provider, self, results, cells, networkUsed,
                   polygon, queried>>

\* status_code == 429: sleep 60 s and continue.
Response429 ==
    /\ pc = "await"
    /\ provider = "any"
    /\ inFlight' = inFlight \ {cellIdx}
    /\ Count("r429")
    /\ lastOutcome' = "429"
    /\ lastBody' = <<>>
    /\ NextAttempt(<<60>>)
    /\ UNCHANGED <<args, apiKey, provider, self, results, cells, networkUsed,
                   polygon, queried>>

\* Mutant of ResponseTimeout: the failed attempt drops what was collected.
ResponseTimeout_ClearsResults ==
    /\ pc = "await"
    /\ provider = "any"
    /\ inFlight' = inFlight \ {cellIdx}
    /\ Count("timeout")
    /\ lastOutcome' = "timeout"
    /\ lastBody' = <<>>
    /\ results' = <<>>
    /\ NextAttempt(Backoff)
    /\ UNCHANGED <<args, apiKey, provider, self, cells, networkUsed,
                   polygon, queried>>

\* requests.post raises requests.exceptions.Timeout.
ResponseTimeout ==
    /\ pc = "await"
    /\ provider = "any"
    /\ inFlight' = inFlight \ {cellIdx}
    /\ Count("timeout")
    /\ lastOutcome' = "timeout"
    /\ lastBody' = <<>>
    /\ NextAttempt(Backoff)
    /\ UNCHANGED <<args, apiKey, provider, self, results, cells, networkUsed,
                   polygon, queried>>

\* Another RequestException: a network error raised by requests.post, or
\* the HTTPError raise_for_status raises on a 4xx/5xx status.
ResponseError ==
    /\ pc = "await"
    /\ provider = "any"
    /\ inFlight' = inFlight \ {cellIdx}
    /\ Count("error")
    /\ lastOutcome' = "error"
    /\ lastBody' = <<>>
    /\ NextAttempt(Backoff)
    /\ UNCHANGED <<args, apiKey, provider, self, results, cells, networkUsed,
                   polygon, queried>>

\* Mutant of Response200: an exception raised while the places are
\* processed is caught like a request error, and the cell is retried.
Response200_RetriesOnRaise ==
    /\ pc = "await"
    /\ inFlight' = inFlight \ {cellIdx}
    /\ \E b \in (IF provider = "fixture" THEN {FixtureBody} ELSE Bodies) :
          LET out == ProcessResults(results, b, self)
          IN  /\ lastBody' = <<b>>
              /\ results' = out.results
              /\ IF out.raised
                 THEN NextAttempt(Backoff)
                 ELSE FinishCell(out.new_count, <<>>)
    /\ Count("ok")
    /\ lastOutcome' = "200"
    /\ UNCHANGED <<args, apiKey, provider, self, cells, networkUsed,
                   polygon, queried>>

\* A 200 response with body b: the places are processed; an exception
\* that is no RequestException leaves scrape_cell, scrape and main.
Response200 ==
    /\ pc = "await"
    /\ inFlight' = inFlight \ {cellIdx}
    /\ \E b \in (IF provider = "fixture" THEN {FixtureBody} ELSE Bodies) :
          LET out == ProcessResults(results, b, self)
          IN  /\ lastBody' = <<b>>
              /\ results' = out.results
              /\ IF out.raised
                 THEN /\ pc' = "raised"
                      /\ slept' = <<>>
                      /\ UNCHANGED <<cellIdx, attempt, returned, delays>>
                 ELSE FinishCell(out.new_count, <<>>)
    /\ Count("ok")
    /\ lastOutcome' = "200"
    /\ UNCHANGED <<args, apiKey, provider, self, cells, networkUsed,
                   polygon, queried>>

Next ==
    \/ Validate
    \/ Construct
    \/ Plan
    \/ SendRequest
    \/ Response429
    \/ ResponseTimeout
    \/ ResponseError
    \/ Response200

Spec == Init /\ [][Next]_vars

\* The program is sequential code that always takes its next step, and
\* every post is answered: requests.post is called with timeout=120, so a
\* response or a Timeout exception arrives.
FairSpec == Spec /\ WF_vars(Next)

\* ------------------------------------------------------------- claims
\* The run has planned its cells.
Planned == pc \in {"request", "await", "done", "raised"}

\* The accumulator a response's processing starts from.
Fresh == [results |-> results, new_count |-> 0, raised |-> FALSE]

\* C1: every record of the ResultSet that carries a location (a stored
\* latitude and longitude) lies within radius_km of the search center,
\* coordinates equal to 0 included.
C1_RecordsWithinRadius ==
    \A k \in DOMAIN results :
        LET r == results[k]
        IN  (r.latitude.t = "num" /\ r.longitude.t = "num") =>
                WithinKm(haversine_distance(self.center_lat, self.center_lon,
                                            r.latitude.n, r.longitude.n),
                         self.radius_km)

\* C2: a 429 response does not consume an attempt: during a cell query the
\* attempts used are the timeout/network failures only, and a cell query
\* is not abandoned before max_retries such failures.
C2_RateLimitKeepsBudget ==
    /\ (pc = "request" /\ attempt > 0) =>
            attempt = tally.timeout + tally.error
    /\ (returned # <<>> /\ attempt = 0 /\ lastOutcome # "200" /\ lastOutcome # "none") =>
            tally.timeout + tally.error = max_retries

\* C3: the third consecutive timeout of a cell query makes scrape_cell
\* return 0 without raising and without touching the ResultSet, and the
\* orchestrator is then at the first request of the next planned cell (or
\* has returned when the cell was the last).
C3_ThreeTimeoutsSkipCell ==
    [][ ( /\ pc = "await"
          /\ attempt = max_retries - 1
          /\ tally.timeout = max_retries - 1
          /\ lastOutcome' = "timeout" ) =>
        ( /\ returned' = <<0>>
          /\ results' = results
          /\ attempt' = 0
          /\ IF cellIdx < Len(cells)
             THEN pc' = "request" /\ cellIdx' = cellIdx + 1
             ELSE pc' = "done" ) ]_vars

C3_Witness ==
    /\ pc = "request"
    /\ cellIdx > 1
    /\ attempt = 0
    /\ lastOutcome = "timeout"
    /\ tally.timeout = max_retries
    /\ returned = <<0>>

\* C4: whatever the cells' outcomes, the run never aborts, scrape() ends
\* having gone through every planned cell, and no step removes or changes
\* a record aggregated earlier.
C4_RunNeverAborts ==
    /\ pc # "raised"
    /\ pc = "done" => cellIdx = Len(cells)

\* C5: once a request has been issued no provider response makes the run
\* abort: every response to a posted request leads to the next request or
\* to the normal end of scrape().
C5_NoResponseIsFatal ==
    [][pc = "await" => pc' \in {"request", "done"}]_vars

\* C6: aggregating a place whose identifier is already in the ResultSet
\* leaves the ResultSet unchanged and counts nothing new, and so does
\* aggregating again the response that has just been aggregated.
C6_AggregationIdempotent ==
    /\ \A b \in Bodies : \A i \in 1..Len(b.places) :
          LET place == b.places[i]
              id == Get(place.placeId, None)
              out == ProcessPlace(Fresh, place, self)
          IN  (Truthy(id) /\ id.s[1] \in DOMAIN results) =>
                  (out.results = results /\ out.new_count = 0)
    /\ (lastBody # <<>> /\ pc # "raised") =>
            ProcessResults(results, lastBody[1], self) = Fresh

C6_Witness ==
    /\ pc \in {"request", "done"}
    /\ self.business_types = <<>>
    /\ lastBody = <<FixtureBody>>
    /\ returned = <<0>>
    /\ "A" \in DOMAIN results

\* C7: a record, once inserted, stays in the ResultSet with the field
\* values it was inserted with, whatever is returned later.
C7_FirstSeenWins ==
    [][\A k \in DOMAIN results :
          k \in DOMAIN results' /\ results'[k] = results[k]]_vars

C7_Witness ==
    /\ pc \in {"request", "done"}
    /\ self.business_types = <<>>
    /\ lastBody = <<ListBody(<<PlaceX2, PlaceN, PlaceX2>>)>>
    /\ "X" \in DOMAIN results
    /\ results["X"].business_name = Str("First")

\* C8: with radius 1 km, a full run against the provider that answers a
\* cell with place "A" (0.5 km away) and place "B" (2 km away) ends with
\* "A" in the ResultSet and "B" not in it.
C8_EndToEndRadiusOne ==
    (pc = "done" /\ provider = "fixture" /\ self.radius_km = 1) =>
        ("A" \in DOMAIN results /\ "B" \notin DOMAIN results)

\* C9: every lattice point within radius_km of the center lies in at least
\* one generated cell.
C9_CellsCoverDisc ==
    Planned =>
        \A dlat \in -Units(self.radius_km)..Units(self.radius_km) :
            \A dlon \in -Units(self.radius_km)..Units(self.radius_km) :
                WithinKm(dlat * dlat + dlon * dlon, self.radius_km) =>
                    \E n \in 1..Len(cells) :
                        /\ cells[n][1] <= self.center_lat + dlat
                        /\ self.center_lat + dlat <= cells[n][3]
                        /\ cells[n][2] <= self.center_lon + dlon
                        /\ self.center_lon + dlon <= cells[n][4]

\* Twice the offset of a cell's midpoint from the center, squared and
\* summed: the squared midpoint distance times 4.
MidpointDist4(cell) ==
    LET a == (cell[1] + cell[3]) - 2 * self.center_lat
        b == (cell[2] + cell[4]) - 2 * self.center_lon
    IN  a * a + b * b

\* C10: every returned cell has its midpoint within radius_km of the
\* center, and every enumerated grid offset whose cell midpoint is within
\* radius_km is returned.
C10_CellCentersWithinRadius ==
    Planned =>
        LET steps == CeilDiv(self.radius_km * 2, GRID_CELL_SIZE_KM)
            limit == 4 * Units(self.radius_km) * Units(self.radius_km)
        IN  /\ \A n \in 1..Len(cells) : MidpointDist4(cells[n]) <= limit
            /\ \A i \in -steps..steps : \A j \in -steps..steps :
                  LET cell == CellAt(self.center_lat, self.center_lon, i, j)
                  IN  MidpointDist4(cell) <= limit =>
                          \E n \in 1..Len(cells) : cells[n] = cell

C10_Witness ==
    /\ pc = "request"
    /\ Len(cells) > 0
    /\ \E i \in -self.radius_km..self.radius_km :
          \E j \in -self.radius_km..self.radius_km :
              \A n \in 1..Len(cells) :
                  cells[n] # CellAt(self.center_lat, self.center_lon, i, j)

\* A cell query has just been abandoned: its last response was a failure
\* and scrape_cell has returned.
Abandoned ==
    /\ pc \in {"request", "done"}
    /\ attempt = 0
    /\ returned # <<>>
    /\ lastOutcome \in {"429", "timeout", "error"}

\* C11: the value scrape_cell returns for an abandoned cell differs from
\* the value it returns for a successful response with no places.
C11_FailureDistinguished ==
    Abandoned =>
        returned # <<ProcessResults(results, ListBody(<<>>), self).new_count>>

\* C12: a timeout or another request error leaves the ResultSet alone; when
\* attempts are left it is followed by a 5 s sleep and the next attempt
\* for the same cell, and the third such failure abandons the cell with
\* return value 0 and no further 5 s sleep.  A cell abandoned without any
\* 429 response has received exactly max_retries failures, one per request.
C12_TransientRetries ==
    [][ /\ ( pc = "await" /\ lastOutcome' \in {"timeout", "error"} ) =>
             /\ results' = results
             /\ IF attempt < max_retries - 1
                THEN /\ slept' = <<5>>
                     /\ attempt' = attempt + 1
                     /\ cellIdx' = cellIdx
                     /\ pc' = "request"
                ELSE /\ returned' = <<0>>
                     /\ slept' \in {<<>>, <<2>>}
                     /\ pc' \in {"request", "done"}
                     /\ attempt' = 0
        /\ ( Abandoned' /\ tally'.r429 = 0 ) =>
             /\ tally'.timeout + tally'.error = max_retries
             /\ tally'.ok = 0
      ]_vars

C12_Witness ==
    /\ Abandoned
    /\ tally = [ok |-> 0, r429 |-> 0, timeout |-> 1, error |-> 2]
    /\ returned = <<0>>
    /\ results = <<>>
    /\ cellIdx > 1

\* The places the provider of the model may return.
PlaceUniverse == UNION { { b.places[i] : i \in 1..Len(b.places) } : b \in Bodies }

\* The place gets as far as the category rule and its identifier is new:
\* it has an identifier, its location is not null and it is not discarded
\* by the radius rule.
ReachesCategoryRule(place) ==
    LET place_id == Get(place.placeId, None)
        loc == place.location
        place_lat == IF loc.t = "absent" THEN None ELSE Get(loc.lat, None)
        place_lon == IF loc.t = "absent" THEN None ELSE Get(loc.lng, None)
    IN  /\ Truthy(place_id)
        /\ loc.t # "null"
        /\ KeyOf(place_id) \notin DOMAIN results
        /\ ~ ( /\ Truthy(place_lat) /\ Truthy(place_lon)
               /\ ~WithinKm(haversine_distance(self.center_lat, self.center_lon,
                                               place_lat.n, place_lon.n),
                            self.radius_km) )

\* C13: with a non-empty filter a place is retained by the category rule
\* iff one of its categories equals a requested type ignoring case (a
\* category that only contains the type does not match, a place without
\* categories is not retained); with no filter, or the filter "all", the
\* rule discards nothing.
C13_CategoryFilter ==
    /\ (pc \notin {"main", "construct", "exit"} /\ args.business_types = "all") =>
            self.business_types = <<>>
    /\ \A place \in PlaceUniverse :
          LET out == ProcessPlace(Fresh, place, self)
              key == KeyOf(Get(place.placeId, None))
              cats == Get(place.categories, List(<<>>)).l
          IN  ReachesCategoryRule(place) =>
                  IF self.business_types = <<>>
                  THEN key \in DOMAIN out.results \/ out.raised
                  ELSE key \in DOMAIN out.results <=>
                          \E b \in 1..Len(self.business_types) :
                              \E c \in 1..Len(cats) :
                                  Lower(cats[c]) = Lower(self.business_types[b])

C13_Witness ==
    /\ pc \in {"request", "done"}
    /\ self.business_types = <<"plumber">>
    /\ self.radius_km >= 2
    /\ lastBody = <<FixtureBody>>
    /\ returned = <<1>>
    /\ "A" \in DOMAIN results
    /\ "B" \notin DOMAIN results

\* C14: every key of the ResultSet is a non-empty identifier, and the
\* record stored under a key has that key as its place_id.
C14_KeysAreIdentifiers ==
    \A k \in DOMAIN results :
        /\ k # ""
        /\ results[k].place_id = Str(k)

C14_Witness ==
    /\ pc \in {"request", "done"}
    /\ lastBody = <<ListBody(<<PlaceE, PlaceM, PlaceF, PlaceA>>)>>
    /\ returned = <<1>>
    /\ DOMAIN results = {"A"}

\* C15: at most one request is outstanding and it is for the current cell;
\* a request is posted only when none is outstanding; the loop moves to
\* cell n+1 only in the step that ends cell n (its response aggregated, or
\* its last attempt failed), after the pauses of that step.
C15_OneCellAtATime ==
    [][ /\ Cardinality(inFlight') <= 1
        /\ inFlight' \subseteq {cellIdx'}
        /\ (inFlight' # {} /\ inFlight' # inFlight) => inFlight = {}
        /\ (cellIdx > 0 /\ cellIdx' # cellIdx) =>
              /\ cellIdx' = cellIdx + 1
              /\ inFlight = {cellIdx}
              /\ inFlight' = {}
              /\ returned' # <<>>
              /\ lastOutcome' = "200" \/ attempt = max_retries - 1
              /\ slept'[Len(slept')] = 2
      ]_vars

C15_Witness ==
    /\ pc = "await"
    /\ cellIdx = 2
    /\ inFlight = {2}
    /\ attempt = 0
    /\ tally.r429 >= 1
    /\ slept = <<60, 2>>

\* C16: while cell i is being queried i-1 inter-cell delays have been
\* taken (one after every earlier cell, aggregated or abandoned); a
\* finished run over n >= 1 cells has taken n-1 of them, none after the
\* last cell; a run over 0 cells has taken none and has posted no request.
C16_InterCellDelays ==
    /\ pc \in {"request", "await"} => delays = cellIdx - 1
    /\ pc = "done" =>
          /\ delays = IF Len(cells) = 0 THEN 0 ELSE Len(cells) - 1
          /\ Len(cells) = 0 => ~networkUsed
          /\ (Len(cells) > 0 /\ slept # <<>>) => slept[Len(slept)] # 2

C16_Witness ==
    /\ pc = "done"
    /\ Len(cells) = 4
    /\ delays = 3
    /\ lastOutcome = "timeout"
    /\ "A" \in DOMAIN results

\* C17: when APIFY_API_KEY is missing the run never gets past the
\* constructor: no cell is planned or queried and no request is posted;
\* the configuration error is raised for that reason only.
C17_MissingKeyIsFatal ==
    /\ ~apiKey =>
          /\ pc \in {"main", "construct", "exit", "config_error"}
          /\ cells = <<>>
          /\ cellIdx = 0
          /\ ~networkUsed
          /\ inFlight = {}
    /\ pc = "config_error" => ~apiKey

C17_Witness ==
    /\ pc = "config_error"
    /\ ~apiKey
    /\ args.radius = 2

\* The search area of the command line is valid: latitude in [-90, 90] and
\* longitude in [-180, 180] degrees (20037.6 and 40075.2 lattice units),
\* radius > 0.
ValidSearchArea ==
    /\ -20037 <= args.lat /\ args.lat <= 20037
    /\ -40075 <= args.lon /\ args.lon <= 40075
    /\ args.radius > 0

\* C18: a run with an invalid search area goes from main to exit: the
\* scraper is not constructed, nothing is planned and no request is
\* posted; a run that is past validation has a valid search area, and the
\* scraper, once constructed, holds it.
C18_InvalidInputExits ==
    /\ ~ValidSearchArea =>
          /\ pc \in {"main", "exit"}
          /\ self.radius_km = 0
          /\ cells = <<>>
          /\ ~networkUsed
    /\ pc \notin {"main", "exit"} => ValidSearchArea
    /\ pc \in {"scrape", "request", "await", "done", "raised"} =>
          /\ self.center_lat = args.lat
          /\ self.center_lon = args.lon
          /\ self.radius_km = args.radius

C18_Witness ==
    /\ pc = "exit"
    /\ args.radius = 0
    /\ apiKey


\* The step in which scrape_cell returns: a response arrives and the run
\* moves to the next cell or ends.
CellReturns ==
    /\ pc = "await"
    /\ pc' \in {"request", "done"}
    /\ attempt' = 0

\* C19: the value scrape_cell returns is the number of records it newly
\* inserted, the size of the ResultSet after the call minus its size before
\* it (only the returning response can insert), and 0 for an abandoned
\* cell; discarded and already present places are not counted.
C19_ReturnIsNewCount ==
    [][CellReturns =>
          /\ returned' = <<Cardinality(DOMAIN results') - Cardinality(DOMAIN results)>>
          /\ lastOutcome' # "200" => returned' = <<0>>
          /\ DOMAIN results \subseteq DOMAIN results']_vars

\* A cell returned 1 for a two-place response whose other place was already
\* present.
C19_Witness ==
    /\ pc \in {"request", "done"}
    /\ attempt = 0
    /\ lastOutcome = "200"
    /\ lastBody = <<FixtureBody>>
    /\ returned = <<1>>
    /\ DOMAIN results = {"A", "B"}

\* C20: the ResultSet is unchanged across every attempt that ends in a 429
\* response, a timeout or a network/HTTP error, and across the sending of a
\* request; it changes only in the aggregation of a 200 response.
C20_QueryingKeepsResults ==
    [][/\ (pc = "await" /\ lastOutcome' \in {"429", "timeout", "error"})
            => results' = results
       /\ results' # results => (pc = "await" /\ lastOutcome' = "200")]_vars

\* A failed attempt was made while records were already collected.
C20_Witness ==
    /\ lastOutcome \in {"429", "timeout", "error"}
    /\ tally.r429 + tally.timeout + tally.error > 0
    /\ attempt > 0
    /\ results # <<>>


OffsetI(cell) == (cell[1] - self.center_lat) \div Units(GRID_CELL_SIZE_KM)
OffsetJ(cell) == (cell[2] - self.center_lon) \div Units(GRID_CELL_SIZE_KM)

\* c1 comes before c2 in row-major order.
RowMajorBefore(c1, c2) ==
    \/ OffsetI(c1) < OffsetI(c2)
    \/ OffsetI(c1) = OffsetI(c2) /\ OffsetJ(c1) < OffsetJ(c2)

\* C22: the planned cells are in row-major order of their grid offsets
\* (increasing i, increasing j within one i); the cells scrape_cell has
\* been called with are, in call order, the first cells of the plan, the
\* current cell being the last of them; when scrape returns, they are the
\* whole plan, each cell once.
C22_RowMajorQueryOrder ==
    Planned =>
        /\ \A k \in 1..(Len(cells) - 1) : RowMajorBefore(cells[k], cells[k + 1])
        /\ Len(queried) <= Len(cells)
        /\ \A k \in 1..Len(queried) : queried[k] = cells[k]
        /\ Len(queried) = IF pc = "request" /\ attempt = 0
                          THEN cellIdx - 1 ELSE cellIdx
        /\ pc = "done" => queried = cells

\* A run over four cells has returned after querying all four.
C22_Witness ==
    /\ pc = "done"
    /\ Len(cells) = 4
    /\ queried = cells
    /\ OffsetI(cells[2]) = -1 /\ OffsetJ(cells[2]) = 0
    /\ OffsetI(cells[3]) = 0 /\ OffsetJ(cells[3]) = -1


\* The cell of the scrape_cell call that made the last post.
LastQueried == queried[Len(queried)]

\* C23: the polygon posted for a cell is a closed ring of exactly 5 points,
\* top-right, bottom-right, bottom-left, top-left, top-right, each point
\* [longitude, latitude]; its first and last points are equal and its four
\* distinct points are the four corners of the cell.
C23_PolygonIsClosedRing ==
    /\ networkUsed <=> polygon # <<>>
    /\ polygon # <<>> =>
          LET ring == polygon[1]
              min_lat == LastQueried[1]
              min_lon == LastQueried[2]
              max_lat == LastQueried[3]
              max_lon == LastQueried[4]
          IN  /\ Len(polygon) = 1
              /\ Len(ring) = 5
              /\ ring[1] = <<max_lon, max_lat>>
              /\ ring[2] = <<max_lon, min_lat>>
              /\ ring[3] = <<min_lon, min_lat>>
              /\ ring[4] = <<min_lon, max_lat>>
              /\ ring[5] = ring[1]
              /\ Cardinality({ring[k] : k \in 1..4}) = 4
              /\ {ring[k] : k \in 1..5} =
                    {<<lo, la>> : lo \in {min_lon, max_lon}, la \in {min_lat, max_lat}}
              /\ pc = "await" => LastQueried = cells[cellIdx]

\* The request of the third of four cells (offsets (0, -1) from the center
\* (1, 2)), on its second attempt, carries the ring of that cell.
C23_Witness ==
    /\ pc = "await"
    /\ cellIdx = 3
    /\ attempt = 1
    /\ polygon = << << <<2, 5>>, <<2, 1>>, <<-2, 1>>, <<-2, 5>>, <<2, 5>> >> >>


\* C24: no field of an inserted record is null: a field the place lacks is
\* stored as the empty string (text) or zero (number), latitude and
\* longitude included.
C24_NoNullField ==
    \A k \in DOMAIN results :
        /\ \A f \in {"business_name", "address", "phone", "website",
                     "categories", "place_id", "google_maps_url"} :
              results[k][f].t = "str"
        /\ \A f \in {"rating", "total_reviews", "latitude", "longitude"} :
              results[k][f].t = "num"


PassesInclusionRules(place) ==
    LET place_id == Get(place.placeId, None)
        loc == place.location
        cats == Get(place.categories, List(<<>>)).l
    IN  /\ place_id.t = "str" /\ place_id.s # <<>>
        /\ (loc.t = "obj" /\ loc.lat.t = "num" /\ loc.lng.t = "num") =>
              WithinKm(haversine_distance(self.center_lat, self.center_lon,
                                          loc.lat.n, loc.lng.n),
                       self.radius_km)
        /\ self.business_types # <<>> => CategoryMatch(self.business_types, cats)

\* The identifiers of the places of body b that satisfy the inclusion rules.
IncludedIds(b) ==
    { KeyOf(b.places[i].placeId) :
        i \in { n \in 1..Len(b.places) : PassesInclusionRules(b.places[n]) } }

\* C26: the ResultSet is exactly characterised by the inclusion rules:
\* each successfully received response adds to the keys exactly the
\* identifiers of its places that satisfy the rules; no such place is
\* dropped and no place violating a rule is kept.
C26_ExactInclusion ==
    [][(pc = "await" /\ lastOutcome' = "200") =>
          DOMAIN results' = DOMAIN results \cup IncludedIds(lastBody'[1])]_vars


\* The responses the most recent cell query has received: one per request.
RequestsAnswered == tally.ok + tally.r429 + tally.timeout + tally.error

\* C27: a cell query terminates: whatever the provider answers (429s
\* without end, timeouts, errors, in any mix) it sends at most max_retries
\* requests, a failed attempt never raises, and a query that waits for a
\* response is followed by its end: scrape is back at the first request of
\* the next cell, or has returned, or (a 200 body only) has raised.
C27_CellQueryTerminates ==
    /\ [](/\ RequestsAnswered <= max_retries
          /\ attempt < max_retries
          /\ (attempt > 0 /\ pc \in {"request", "await"}) =>
                RequestsAnswered = attempt)
    /\ [][(pc = "await" /\ lastOutcome' # "200") => pc' \in {"request", "done"}]_vars
    /\ (pc = "await") ~> (\/ pc = "request" /\ attempt = 0
                          \/ pc \in {"done", "raised"})

\* A cell query that received three 429 responses and nothing else has
\* returned; the run is at the next cell.
C27_Witness ==
    /\ pc = "request"
    /\ attempt = 0
    /\ cellIdx = 2
    /\ tally = [ok |-> 0, r429 |-> 3, timeout |-> 0, error |-> 0]
    /\ returned = <<0>>


\* C28: a backoff pause (5 s or 60 s) is taken only when another request
\* for the same cell follows it: the step of the attempt that ends a cell
\* query takes none.
C28_NoPauseAfterLastAttempt ==
    [][pc = "await" =>
          ((\E k \in 1..Len(slept') : slept'[k] \in {5, 60}) =>
               /\ pc' = "request"
               /\ cellIdx' = cellIdx
               /\ attempt' = attempt + 1)]_vars


\* C29: the first successfully received response ends the cell query: the
\* step that receives it leaves the cell (next cell, return of scrape, or
\* an exception), so no further request is sent for it; a cell query
\* receives at most one such response, and the ResultSet changes only with
\* the one response of the current cell.
C29_FirstSuccessEndsQuery ==
    /\ [](tally.ok <= 1)
    /\ [][/\ (pc = "await" /\ lastOutcome' = "200") =>
              /\ \/ pc' \in {"done", "raised"}
                 \/ pc' = "request" /\ cellIdx' = cellIdx + 1 /\ attempt' = 0
              /\ tally'.ok = 1
              /\ cellIdx \notin inFlight'
          /\ results' # results => (lastOutcome' = "200" /\ tally'.ok = 1)
          /\ (pc = "request" /\ pc' = "await" /\ attempt > 0) => tally.ok = 0
       ]_vars

\* The second cell's query succeeded on its third request, after a timeout
\* and a 429, and the run went on to the third cell.
C29_Witness ==
    /\ pc = "request"
    /\ cellIdx = 3
    /\ attempt = 0
    /\ tally = [ok |-> 1, r429 |-> 1, timeout |-> 1, error |-> 0]
    /\ lastOutcome = "200"
    /\ results # <<>>


\* The interiors of two cells have no point in common.
InteriorsDisjoint(c1, c2) ==
    \/ c1[3] <= c2[1]
    \/ c2[3] <= c1[1]
    \/ c1[4] <= c2[2]
    \/ c2[4] <= c1[2]

\* C30: the planned cells are pairwise distinct, come from pairwise
\* distinct grid offsets and have pairwise disjoint interiors: two cells
\* share at most an edge or a corner.
C30_CellsDisjoint ==
    Planned =>
        \A m \in 1..Len(cells) : \A n \in 1..Len(cells) :
            m # n =>
                /\ cells[m] # cells[n]
                /\ <<OffsetI(cells[m]), OffsetJ(cells[m])>> #
                       <<OffsetI(cells[n]), OffsetJ(cells[n])>>
                /\ InteriorsDisjoint(cells[m], cells[n])

\* A plan whose first two cells share an edge and whose first and last
\* cells share only the center as a corner.
C30_Witness ==
    /\ Planned
    /\ Len(cells) = 4
    /\ cells[1][4] = cells[2][2] /\ cells[1][1] = cells[2][1]
    /\ cells[1][3] = cells[4][1] /\ cells[1][4] = cells[4][2]
    /\ cells[4][1] = self.center_lat /\ cells[4][2] = self.center_lon

====
